---- MODULE Spec2Model ----
(***************************************************************************)
(* Model of docs/whitepaper/assets/convert_html_to_png.py: a script that   *)
(* reads dao_vs_dee_diagram.html, hands it to Html2Image.screenshot and    *)
(* reports whether dao_vs_dee_diagram.png exists afterwards.               *)
(*                                                                         *)
(* The filesystem outlives the process, so a behaviour is a sequence of    *)
(* runs of the script over one filesystem.  The headless browser is the    *)
(* environment: it is fixed for the length of a run and may differ from    *)
(* one run to the next.                                                    *)
(***************************************************************************)
EXTENDS Integers, Sequences, FiniteSets, TLC

\* ---------------------------------------------------------------- bounds
\* Number of distinct source documents the HTML file may hold.
MaxDoc == 15
\* Number of times the script is run over the same filesystem.
MaxRuns == 3

\* ------------------------------------------------------------- constants
SCRIPT_DIR == "assets"
HTML_NAME == "dao_vs_dee_diagram.html"
OUTPUT_FILE == "dao_vs_dee_diagram.png"
\* Some other file of the script's directory, which the script never names.
OTHER_NAME == "dao_vs_dee_diagram.svg"

\* pathlib's "/": a path is its directory and its file name.
Join(dir, name) == <<dir, name>>

HTML_FILE == Join(SCRIPT_DIR, HTML_NAME)
output_path == Join(SCRIPT_DIR, OUTPUT_FILE)
OTHER_FILE == Join(SCRIPT_DIR, OTHER_NAME)

FileNames == {HTML_NAME, OUTPUT_FILE, OTHER_NAME}
Paths == {Join(SCRIPT_DIR, n) : n \in FileNames}

\* The divisor of "st_size / 1024".
KB == 1024

\* Exit status of the interpreter after an unhandled exception.
FaultStatus == 1
\* Value of exitStatus while the process is still running.
Running == -1

\* ------------------------------------------------------------ filesystem
\* A file: data is the document it holds (for a PNG, the document it is the
\* rendering of), bytes its st_size, run the run that wrote it (0: it was
\* there before the first run).
Absent == [exists |-> FALSE, data |-> 0, bytes |-> 0, run |-> 0]

HtmlDocs == 1 .. MaxDoc

SourceFile(d) == [exists |-> TRUE, data |-> d, bytes |-> d, run |-> 0]

\* Size of the PNG the browser encodes for document d: the sizes lie one
\* below, on and one above the multiples of half a kilobyte.
PngBytes(d) == ((d + 2) \div 3) * (KB \div 2) + ((d + 2) % 3) - 1

\* A browser that stops before it encoded the image leaves no bytes.
EmptyFile(n) == [exists |-> TRUE, data |-> 0, bytes |-> 0, run |-> n]

RenderedFileEmpty(d, n) == EmptyFile(n)

\* The image a working browser writes for document d in run n.
RenderedFile(d, n) == [exists |-> TRUE, data |-> d, bytes |-> PngBytes(d), run |-> n]

\* ----------------------------------------------------------- environment
\* working:   the browser renders the page and writes the image;
\* invalid:   the executable path does not name an invocable browser;
\* nooutput:  the browser runs and exits without writing the image;
\* truncates: the browser creates the image file and dies before encoding.
Browsers == {"working", "invalid", "nooutput", "truncates"}

VARIABLES
    fs,            \* the filesystem: Paths -> file
    browser,       \* the browser this run finds at browser_executable
    run,           \* number of the current run, from 1
    pc,            \* the statement the process executes next
    html_content,  \* the script's html_content; 0 before it is assigned
    hti,           \* the script's hti; configured = FALSE before line 16
    stdout,        \* the messages this run printed
    exitStatus,    \* the exit status of this run; Running until it exits
    rendered,      \* how hti.screenshot ended in this run; "none" before
    trace,         \* the steps this run executed, in order
    fsStart,       \* the filesystem when this run started
    fs0            \* the filesystem before the first run

vars == <<fs, browser, run, pc, html_content, hti, stdout, exitStatus,
          rendered, trace, fsStart, fs0>>

NoHti == [configured |-> FALSE, output_path |-> "", size |-> <<0, 0>>]

\* --------------------------------------------------------------- helpers
\* HTML_FILE.read_text: FileNotFoundError when the file is missing.
ReadOutcomeLenient(f) == "ok"

ReadOutcome(f) == IF f.exists THEN "ok" ELSE "fault"

\* Html2Image(...): the constructor may reject an executable path it cannot
\* use; one it does not reject fails when screenshot spawns it.
ConfigureOutcomes(b) == IF b = "invalid" THEN {"ok", "fault"} ELSE {"ok"}

\* hti.screenshot(...): how the call ends for each browser.
ScreenshotOutcomesSwallow(b) ==
    CASE b = "working" -> {"wrote"}
      [] b = "nooutput" -> {"nowrite"}
      [] b = "truncates" -> {"empty"}
      [] OTHER -> {"nowrite"}

ScreenshotOutcomes(b) ==
    CASE b = "working" -> {"wrote"}
      [] b = "nooutput" -> {"nowrite"}
      [] b = "truncates" -> {"empty"}
      [] OTHER -> {"fault"}

\* The file name passed as save_as.
save_as_other == OTHER_NAME

save_as == OUTPUT_FILE

\* The filesystem after hti.screenshot(html_str = d, save_as = name) of run
\* n ended with outcome o: the browser writes hti.output_path / save_as,
\* replacing the file that was there.
FsAfterScreenshotScratch(f, o, dir, name, d, n) ==
    CASE o = "wrote" ->
           [f EXCEPT ![Join(dir, name)] = RenderedFile(d, n),
                     ![HTML_FILE] = EmptyFile(n)]
      [] o = "empty" -> [f EXCEPT ![Join(dir, name)] = EmptyFile(n)]
      [] OTHER -> f

FsAfterScreenshot(f, o, dir, name, d, n) ==
    CASE o = "wrote" -> [f EXCEPT ![Join(dir, name)] = RenderedFile(d, n)]
      [] o = "empty" -> [f EXCEPT ![Join(dir, name)] = EmptyFile(n)]
      [] OTHER -> f

\* Where control goes when hti.screenshot ended with outcome o, n being the
\* number of screenshot calls made so far in this run.
AfterScreenshotRetry(o, n) ==
    IF o = "fault" THEN "Exited"
    ELSE IF o = "nowrite" /\ n < 2 THEN "Render"
    ELSE "CheckOutput"

AfterScreenshot(o, n) == IF o = "fault" THEN "Exited" ELSE "CheckOutput"

\* if output_path.exists(): ... else: ...
CheckBranchNonEmpty(f) == IF f.exists /\ f.bytes > 0 THEN "ReportSuccess" ELSE "ReportMissing"

CheckBranch(f) == IF f.exists THEN "ReportSuccess" ELSE "ReportMissing"

\* f"{size_kb:.0f}" of size_kb = st_size / 1024.  The division by a power
\* of two is exact in a double, and the format rounds to the nearest integer,
\* a tie going to the even one.
FormatKBTrunc(bytes) == bytes \div KB

FormatKB(bytes) ==
    LET q == bytes \div KB
        r == bytes % KB
    IN  IF 2 * r > KB THEN q + 1
        ELSE IF 2 * r < KB THEN q
        ELSE IF q % 2 = 0 THEN q ELSE q + 1

SuccessMsg(p, n) == [kind |-> "Success", path |-> p, kb |-> n]
ErrorMsg == [kind |-> "Error", path |-> <<"", "">>, kb |-> 0]

\* The script ends after its print: the interpreter exits with status 0.
ExitAfterReportStrict(kind) == IF kind = "Error" THEN 1 ELSE 0

ExitAfterReport(kind) == 0

Count(s, x) == Cardinality({i \in 1 .. Len(s) : s[i] = x})

\* --------------------------------------------------------------- initial
InitFs ==
    {f \in [Paths -> {Absent} \cup {SourceFile(d) : d \in HtmlDocs}
                              \cup {RenderedFile(d, 0) : d \in HtmlDocs}] :
        /\ f[HTML_FILE] \in {Absent} \cup {SourceFile(d) : d \in HtmlDocs}
        /\ f[output_path] \in {Absent} \cup {RenderedFile(d, 0) : d \in HtmlDocs}
        /\ f[OTHER_FILE] \in {Absent, SourceFile(1)}}

Init ==
    /\ fs \in InitFs
    /\ browser \in Browsers
    /\ run = 1
    /\ pc = "ReadSource"
    /\ html_content = 0
    /\ hti = NoHti
    /\ stdout = <<>>
    /\ exitStatus = Running
    /\ rendered = "none"
    /\ trace = <<>>
    /\ fsStart = fs
    /\ fs0 = fs

\* --------------------------------------------------------------- actions
\* Line 13: html_content = HTML_FILE.read_text(encoding="utf-8")
ReadSource ==
    /\ pc = "ReadSource"
    /\ trace' = Append(trace, "ReadSource")
    /\ IF ReadOutcome(fs[HTML_FILE]) = "ok"
       THEN /\ html_content' = fs[HTML_FILE].data
            /\ pc' = "Configure"
            /\ exitStatus' = exitStatus
       ELSE /\ html_content' = html_content
            /\ pc' = "Exited"
            /\ exitStatus' = FaultStatus
    /\ UNCHANGED <<fs, browser, run, hti, stdout, rendered, fsStart, fs0>>

\* Lines 16-25: hti = Html2Image(browser_executable=..., output_path=...)
Configure ==
    /\ pc = "Configure"
    /\ trace' = Append(trace, "Configure")
    /\ \E o \in ConfigureOutcomes(browser) :
         IF o = "ok"
         THEN /\ hti' = [configured |-> TRUE, output_path |-> SCRIPT_DIR,
                         size |-> <<1400, 1100>>]
              /\ pc' = "Render"
              /\ exitStatus' = exitStatus
         ELSE /\ hti' = hti
              /\ pc' = "Exited"
              /\ exitStatus' = FaultStatus
    /\ UNCHANGED <<fs, browser, run, html_content, stdout, rendered, fsStart, fs0>>

\* Lines 28-31: paths = hti.screenshot(html_str=html_content, save_as=OUTPUT_FILE)
Render ==
    /\ pc = "Render"
    /\ trace' = Append(trace, "Render")
    /\ \E o \in ScreenshotOutcomes(browser) :
         /\ rendered' = o
         /\ fs' = FsAfterScreenshot(fs, o, hti.output_path, save_as, html_content, run)
         /\ pc' = AfterScreenshot(o, Count(trace', "Render"))
         /\ exitStatus' = IF pc' = "Exited" THEN FaultStatus ELSE exitStatus
    /\ UNCHANGED <<browser, run, html_content, hti, stdout, fsStart, fs0>>

\* Lines 33-34: output_path = SCRIPT_DIR / OUTPUT_FILE; if output_path.exists():
CheckOutput ==
    /\ pc = "CheckOutput"
    /\ trace' = Append(trace, "CheckOutput")
    /\ pc' = CheckBranch(fs[output_path])
    /\ UNCHANGED <<fs, browser, run, html_content, hti, stdout, exitStatus,
                   rendered, fsStart, fs0>>

\* Lines 35-36: size_kb = ...; print(f"Success: {output_path} ({size_kb:.0f} KB)")
ReportSuccess ==
    /\ pc = "ReportSuccess"
    /\ trace' = Append(trace, "ReportSuccess")
    /\ stdout' = Append(stdout, SuccessMsg(output_path, FormatKB(fs[output_path].bytes)))
    /\ pc' = "Exited"
    /\ exitStatus' = ExitAfterReport("Success")
    /\ UNCHANGED <<fs, browser, run, html_content, hti, rendered, fsStart, fs0>>

\* Lines 37-38: print("Error: PNG file was not created")
ReportMissing ==
    /\ pc = "ReportMissing"
    /\ trace' = Append(trace, "ReportMissing")
    /\ stdout' = Append(stdout, ErrorMsg)
    /\ pc' = "Exited"
    /\ exitStatus' = ExitAfterReport("Error")
    /\ UNCHANGED <<fs, browser, run, html_content, hti, rendered, fsStart, fs0>>

\* The script is run again: a new process over the filesystem the last run
\* left, with whatever browser is installed by then.
Rerun ==
    /\ pc = "Exited"
    /\ run < MaxRuns
    /\ run' = run + 1
    /\ browser' \in Browsers
    /\ pc' = "ReadSource"
    /\ html_content' = 0
    /\ hti' = NoHti
    /\ stdout' = <<>>
    /\ exitStatus' = Running
    /\ rendered' = "none"
    /\ trace' = <<>>
    /\ fsStart' = fs
    /\ UNCHANGED <<fs, fs0>>

Next ==
    \/ ReadSource
    \/ Configure
    \/ Render
    \/ CheckOutput
    \/ ReportSuccess
    \/ ReportMissing
    \/ Rerun

Spec == Init /\ [][Next]_vars

\* ------------------------------------------------------------ type check
TypeOK ==
    /\ DOMAIN fs = Paths
    /\ browser \in Browsers
    /\ run \in 1 .. MaxRuns
    /\ pc \in {"ReadSource", "Configure", "Render", "CheckOutput",
               "ReportSuccess", "ReportMissing", "Exited"}
    /\ html_content \in 0 .. MaxDoc
    /\ exitStatus \in {Running, 0, FaultStatus}
    /\ rendered \in {"none", "wrote", "nowrite", "empty", "fault"}
    /\ Len(stdout) <= 2

\* ---------------------------------------------------------------- claims
Exited == pc = "Exited"
Returned == rendered \in {"wrote", "nowrite", "empty"}
Reached(step) == Count(trace, step) > 0
IsPrefix(s, t) == Len(s) <= Len(t) /\ \A i \in 1 .. Len(s) : s[i] = t[i]

\* C1: when the source HTML file is missing at the start of a run, whatever
\* the output PNG was, the run stops at the read step with a non-zero exit
\* status: the renderer is neither configured nor called, the existence
\* check is not reached, nothing is printed and the output PNG is the file
\* (or the absence) the run started with.
C1_MissingSourceAborts ==
    ~fsStart[HTML_FILE].exists =>
        /\ ~Reached("Configure") /\ ~Reached("Render") /\ ~Reached("CheckOutput")
        /\ pc \in {"ReadSource", "Exited"}
        /\ stdout = <<>>
        /\ fs[output_path] = fsStart[output_path]
        /\ Exited => trace = <<"ReadSource">> /\ exitStatus \notin {0, Running}

C1_Witness ==
    /\ ~fsStart[HTML_FILE].exists
    /\ Exited
    /\ trace = <<"ReadSource">>
    /\ fs[output_path].exists

\* C2: with an invalid browser executable path the run ends with a non-zero
\* exit status, in the constructor or in the screenshot call, without
\* touching the output file, reaching the existence check or printing.
C2_InvalidBrowserAborts ==
    browser = "invalid" =>
        /\ ~Reached("CheckOutput")
        /\ pc \in {"ReadSource", "Configure", "Render", "Exited"}
        /\ stdout = <<>>
        /\ fs[output_path] = fsStart[output_path]
        /\ Exited => exitStatus \notin {0, Running}

C2_Witness ==
    /\ browser = "invalid"
    /\ Exited
    /\ rendered = "fault"
    /\ exitStatus = FaultStatus

\* C3: when the screenshot call returned and there is no file at the output
\* path, the run printed exactly the error message and its exit status is 0.
C3_MissingOutputReported ==
    (Exited /\ Returned /\ ~fs[output_path].exists) =>
        /\ stdout = <<ErrorMsg>>
        /\ exitStatus = 0

C3_Witness ==
    /\ Exited
    /\ rendered = "nowrite"
    /\ ~fs[output_path].exists
    /\ stdout = <<ErrorMsg>>

\* C4: with the source present and a working browser, a finished run leaves
\* a file of more than zero bytes at SCRIPT_DIR / dao_vs_dee_diagram.png,
\* has printed the Success message for that path and exits with status 0.
C4_WorkingRunSucceeds ==
    (Exited /\ fsStart[HTML_FILE].exists /\ browser = "working") =>
        /\ fs[Join(SCRIPT_DIR, "dao_vs_dee_diagram.png")].exists
        /\ fs[Join(SCRIPT_DIR, "dao_vs_dee_diagram.png")].bytes > 0
        /\ Len(stdout) = 1
        /\ stdout[1].kind = "Success"
        /\ stdout[1].path = Join(SCRIPT_DIR, "dao_vs_dee_diagram.png")
        /\ exitStatus = 0

C4_Witness ==
    /\ Exited
    /\ browser = "working"
    /\ rendered = "wrote"
    /\ Len(stdout) = 1
    /\ stdout[1].kind = "Success"
    /\ fs[output_path].bytes > KB

\* C5 as stated: the number of the Success message is the byte size of the
\* output file divided by 1024 and truncated.
C5_TruncatedKB ==
    \A i \in DOMAIN stdout :
        stdout[i].kind = "Success" => stdout[i].kb = fs[output_path].bytes \div 1024

\* C5 amended: the number of the Success message is a non-negative integer,
\* the byte size of the output file divided by 1024 and rounded to the
\* nearest integer, a tie (an odd multiple of 512 bytes) going to the even
\* neighbour.
C5_RoundedKB ==
    \A i \in DOMAIN stdout :
        stdout[i].kind = "Success" =>
            LET n == stdout[i].kb
                b == fs[output_path].bytes
                twiceErr == IF 2 * 1024 * n >= 2 * b THEN 2 * 1024 * n - 2 * b
                            ELSE 2 * b - 2 * 1024 * n
            IN  /\ n \in Nat
                /\ twiceErr <= 1024
                /\ twiceErr = 1024 => n % 2 = 0

C5_Witness ==
    /\ Exited
    /\ Len(stdout) = 1
    /\ stdout[1].kind = "Success"
    /\ fs[output_path].bytes = 1535
    /\ stdout[1].kb = 1

\* C6: a run whose renderer wrote its image leaves exactly one rendered file,
\* at the fixed output path, and that file is the rendering of the source
\* made by this run; every other path is as it was before the first run, and
\* when the previous run had rendered the same source the filesystem differs
\* from the one it left in nothing but the stamp of the writing run.
C6_RerunOverwrites ==
    (Exited /\ rendered = "wrote") =>
        /\ {p \in Paths : fs[p].exists /\ fs[p].run > 0} = {output_path}
        /\ fs[output_path].run = run
        /\ fs[output_path].data = fs0[HTML_FILE].data
        /\ \A p \in Paths \ {output_path} : fs[p] = fs0[p]
        /\ (fsStart[output_path].run > 0 /\ fsStart[output_path].data # 0) =>
               fs = [fsStart EXCEPT ![output_path].run = run]

C6_Witness ==
    /\ Exited
    /\ rendered = "wrote"
    /\ run = 2
    /\ fsStart[output_path].run = 1
    /\ fsStart[output_path].data = fs0[HTML_FILE].data
    /\ fs[output_path].run = 2

\* C7: a run whose screenshot call returned without writing the output file
\* prints the error message and no Success message, also when a file of an
\* earlier run is at the output path.
C7_ReportsMaterialized ==
    (Exited /\ rendered = "nowrite") => stdout = <<ErrorMsg>>

\* C8: the steps of a run are an initial part of ReadSource, (Configure,)
\* Render, CheckOutput and then one of ReportSuccess and ReportMissing: one
\* read, before the one screenshot call, and the existence check only after
\* that call returned.
C8_LinearOrder ==
    /\ \/ IsPrefix(trace, <<"ReadSource", "Configure", "Render", "CheckOutput", "ReportSuccess">>)
       \/ IsPrefix(trace, <<"ReadSource", "Configure", "Render", "CheckOutput", "ReportMissing">>)
    /\ Count(trace, "ReadSource") <= 1
    /\ Count(trace, "Render") <= 1
    /\ Reached("Render") => html_content # 0
    /\ (Reached("CheckOutput") \/ pc = "CheckOutput") => Returned
    /\ (~Exited /\ rendered = "nowrite") => pc \in {"CheckOutput", "ReportSuccess", "ReportMissing"}

C8_Witness ==
    /\ Exited
    /\ run = 2
    /\ trace = <<"ReadSource", "Configure", "Render", "CheckOutput", "ReportMissing">>

\* C9: every path but the output PNG path, the source HTML file among them,
\* holds what it held before the first run, and the filesystem differs from
\* the one the run started with only once the screenshot call has written.
C9_OnlyOutputWritten ==
    /\ \A p \in Paths \ {output_path} : fs[p] = fs0[p]
    /\ fs[HTML_FILE] = fsStart[HTML_FILE]
    /\ fs # fsStart => rendered \in {"wrote", "empty"}

C9_Witness ==
    /\ Exited
    /\ fs # fsStart
    /\ fs[HTML_FILE].exists
    /\ fs0[OTHER_FILE].exists
    /\ rendered = "wrote"

\* C10: a run prints at most one message; a finished run that reached the
\* existence check printed exactly one, Success when a file is at the output
\* path and Error when none is; a run that stopped before printed none.
C10_OneMessage ==
    /\ Len(stdout) <= 1
    /\ (Exited /\ Reached("CheckOutput")) =>
           /\ Len(stdout) = 1
           /\ stdout[1].kind \in {"Success", "Error"}
           /\ stdout[1].kind = "Success" <=> fs[output_path].exists
           /\ stdout[1].kind = "Error" <=> ~fs[output_path].exists
    /\ (Exited /\ ~Reached("CheckOutput")) => stdout = <<>>

C10_Witness ==
    /\ Exited
    /\ rendered = "empty"
    /\ Len(stdout) = 1
    /\ stdout[1].kind = "Success"
    /\ stdout[1].kb = 0
====
